---- MODULE Spec2Model ----
(***************************************************************************)
(* Model of the two streaming producers of unixpickle/gscrape:             *)
(*   PlayBooks.MyBooks  (src/playbooks.go:100-174)  offset/total paging     *)
(*   Youtube.History    (src/youtube.go:143-190)    load-more-link paging   *)
(* Each call starts one goroutine that fetches a page, hands the page's     *)
(* items to the consumer over an unbuffered channel, and continues with the *)
(* next page.  Errors go to a channel of capacity 1.  Both channels are     *)
(* closed by deferred calls.                                                *)
(*                                                                         *)
(* The transport (Session.Do) and the parsers are the environment: every    *)
(* response they can give is a nondeterministic choice.                     *)
(***************************************************************************)
EXTENDS Integers, Sequences, FiniteSets, TLC

\* ------------------------------------------------------------------ bounds
\* Most items one response carries.
MaxItems == 2
\* Most requests one stream issues (the first one included).
MaxFetch == 3

\* Capacity of errChan: make(chan error, 1).
ErrChanCap == 1

\* The same two bounds where two streams run side by side.
ConcItems == 1
ConcFetch == 2

\* ---------------------------------------------------------------- helpers
IsPrefix(s, t) == Len(s) <= Len(t) /\ SubSeq(t, 1, Len(s)) = s

\* The records of page p, which has n items, in document order.  A record is
\* identified by its page and its position in the page.
PageItems(p, n) == [k \in 1..n |-> <<p, k>>]

\* Concatenation, in fetch order, of the items of the pages whose item counts
\* are counts[1], counts[2], ...
RECURSIVE Concat(_, _)
Concat(counts, upto) ==
    IF upto = 0 THEN <<>>
    ELSE Concat(counts, upto - 1) \o PageItems(upto, counts[upto])

RECURSIVE Sum(_, _)
Sum(counts, upto) ==
    IF upto = 0 THEN 0 ELSE Sum(counts, upto - 1) + counts[upto]

\* What the load-more document of a History page can be:
\*   "nil"       html.Parse of load_more_widget_html gave no tree
\*   "nomarker"  a tree without a yt-uix-load-more element
\*   "noattr"    the element is there, data-uix-load-more-href is absent/empty
\*   "badhref"   the attribute is there but does not form a valid URL
\*   "href"      the attribute is there and names the next page
MoreKinds == {"nil", "nomarker", "noattr", "badhref", "href"}
\* The first document is its own load-more document, so it is never nil.
FirstMoreKinds == MoreKinds \ {"nil"}

\* ------------------------------------------------------ parseVideoDuration
\* A text is a sequence of one-character strings.
\* Longest text drawn from DurChars.
MaxDurLen == 4
DurChars == {"0", "1", "7", ":", "a", "-"}

RECURSIVE TextsOfLen(_)
TextsOfLen(n) ==
    IF n = 0 THEN {<<>>}
    ELSE {Append(t, c) : t \in TextsOfLen(n - 1), c \in DurChars}

\* Texts named by the documentation of the duration format, and texts whose
\* components are longer than those drawn from DurChars.
DurExamples ==
    { <<"4", ":", "0", "5">>,
      <<"1", ":", "0", "2", ":", "0", "3">>,
      <<"1", "0", "0", ":", "0", "0", ":", "0", "0">>,
      <<"-", "-", ":", "-", "-">>,
      <<"a", "b", "c">>,
      <<":", "5">>, <<"4", ":">>, <<"1", ":", ":", "3">>,
      <<"1", ":", "2", ":", "3", ":", "4">>,
      <<"9", "9", ":", "5", "9">> }

DurTexts == UNION {TextsOfLen(n) : n \in 0..MaxDurLen} \cup DurExamples

Digits == <<"0", "1", "2", "3", "4", "5", "6", "7", "8", "9">>
IsDigit(c) == \E d \in 1..Len(Digits) : Digits[d] = c
DigitValue(c) == (CHOOSE d \in 1..Len(Digits) : Digits[d] = c) - 1
AllDigits(s) == \A k \in 1..Len(s) : IsDigit(s[k])

\* The number a non-empty sequence of decimal digits denotes.
RECURSIVE Decimal(_)
Decimal(s) ==
    IF s = <<>> THEN 0
    ELSE 10 * Decimal(SubSeq(s, 1, Len(s) - 1)) + DigitValue(s[Len(s)])

\* strconv.Atoi on the texts the regular expressions let through (digits only):
\* the empty text is a syntax error, and the value returned with an error is 0.
Atoi(s) ==
    IF s = <<>> \/ ~AllDigits(s)
    THEN [n |-> 0, err |-> "syntax"]
    ELSE [n |-> Decimal(s), err |-> "nil"]

\* The parts of s between its colons.
RECURSIVE SplitColon(_)
SplitColon(s) ==
    IF \A k \in 1..Len(s) : s[k] # ":" THEN <<s>>
    ELSE LET k == CHOOSE j \in 1..Len(s) :
                      s[j] = ":" /\ \A h \in 1..(j - 1) : s[h] # ":"
         IN  <<SubSeq(s, 1, k - 1)>> \o SplitColon(SubSeq(s, k + 1, Len(s)))

\* FindStringSubmatch of ^([0-9]*):([0-9]*)$ (groups = 2) and of
\* ^([0-9]*):([0-9]*):([0-9]*)$ (groups = 3): <<>> for nil, else the whole
\* match followed by the groups.  [0-9]* matches the empty text too.
FindStringSubmatch(groups, s) ==
    LET parts == SplitColon(s)
    IN  IF Len(parts) = groups /\ \A j \in 1..groups : AllDigits(parts[j])
        THEN <<s>> \o parts
        ELSE <<>>

shortDurationRegexp(s) == FindStringSubmatch(2, s)
longDurationRegexp(s) == FindStringSubmatch(3, s)

\* As parseVideoDuration, with the hours of the long form counted as minutes.
parseVideoDurationHoursAsMinutes(text) ==
    LET shortParsed == shortDurationRegexp(text)
        longParsed == longDurationRegexp(text)
    IN  IF shortParsed # <<>>
        THEN [d |-> Atoi(shortParsed[2]).n * 60 + Atoi(shortParsed[3]).n,
              err |-> "nil"]
        ELSE IF longParsed # <<>>
        THEN [d |-> Atoi(longParsed[2]).n * 60 + Atoi(longParsed[3]).n * 60
                    + Atoi(longParsed[4]).n,
              err |-> "nil"]
        ELSE [d |-> 0, err |-> "unable to parse duration"]

\* parseVideoDuration: d is the duration in units of time.Second.  The errors
\* of Atoi are dropped.
parseVideoDuration(text) ==
    LET shortParsed == shortDurationRegexp(text)
        longParsed == longDurationRegexp(text)
    IN  IF shortParsed # <<>>
        THEN [d |-> Atoi(shortParsed[2]).n * 60 + Atoi(shortParsed[3]).n,
              err |-> "nil"]
        ELSE IF longParsed # <<>>
        THEN [d |-> Atoi(longParsed[2]).n * 60 * 60 + Atoi(longParsed[3]).n * 60
                    + Atoi(longParsed[4]).n,
              err |-> "nil"]
        ELSE [d |-> 0, err |-> "unable to parse duration"]

\* ---------------------------------------------------------- parseVideoInfo
\* strings.TrimSpace, for the one white-space character the texts here use.
RECURSIVE TrimSpace(_)
TrimSpace(s) ==
    IF s = <<>> THEN s
    ELSE IF Head(s) = " " THEN TrimSpace(Tail(s))
    ELSE IF s[Len(s)] = " " THEN TrimSpace(SubSeq(s, 1, Len(s) - 1))
    ELSE s

\* What a yt-lockup-video element can hold:
\*   thumb   "absent": no yt-thumb-simple element; "noimg": one without an img;
\*           "data-thumb" / "src": an img with that attribute
\*   time    "absent": no video-time element; else its text
\*   title, author   "absent": no container; "nolink": a container without a
\*           link; "text": a link with text
\*   desc    "absent": no yt-lockup-description element; "text": one with text
ElementKinds ==
    << [thumb |-> "data-thumb", time |-> <<" ", "4", ":", "0", "5", " ">>,
        title |-> "text", author |-> "text", desc |-> "text"],
       [thumb |-> "src", time |-> <<"-", "-", ":", "-", "-">>,
        title |-> "text", author |-> "text", desc |-> "text"],
       [thumb |-> "absent", time |-> "absent",
        title |-> "absent", author |-> "absent", desc |-> "absent"],
       [thumb |-> "noimg", time |-> <<"a", "b", "c">>,
        title |-> "nolink", author |-> "absent", desc |-> "text"] >>

\* The k-th yt-lockup-video element of page p of the history: the kinds follow
\* one another through the pages.
VideoElement(p, k) ==
    [id |-> <<p, k>>, kind |-> ElementKinds[((p + k) % Len(ElementKinds)) + 1]]

\* parseVideoInfo: every field starts at its zero value and is set only when
\* its element is found; the error of parseVideoDuration is dropped.
parseVideoInfo(element) ==
    LET e == element.kind
    IN  [ID |-> element.id,
         ThumbnailURL |-> IF e.thumb \in {"absent", "noimg"} THEN "nil" ELSE e.thumb,
         Length |-> IF e.time = "absent" THEN 0
                    ELSE parseVideoDuration(TrimSpace(e.time)).d,
         Title |-> IF e.title = "text" THEN "title" ELSE "",
         Author |-> IF e.author = "text" THEN "author" ELSE "",
         Description |-> IF e.desc = "text" THEN "description" ELSE ""]

\* ------------------------------------------------- time.Parse and Unix
\* A time.Time is held as [days, sec]: whole days since 0001-01-01 UTC and the
\* second of the day.  A count of seconds (Time.Unix, BookInfo.UpdateTimestamp)
\* is held the same way, [days, sec] standing for 86400 * days + sec, since
\* the counts met here are beyond the integers of the model checker.
ZeroTime == [days |-> 0, sec |-> 0]
ZeroSeconds == [days |-> 0, sec |-> 0]

IsLeap(y) == (y % 4 = 0 /\ y % 100 # 0) \/ y % 400 = 0
DaysIn(m, y) ==
    IF m = 2 THEN (IF IsLeap(y) THEN 29 ELSE 28)
    ELSE IF m \in {4, 6, 9, 11} THEN 30 ELSE 31

RECURSIVE DaysBefore(_, _)
DaysBefore(m, y) == IF m = 1 THEN 0 ELSE DaysBefore(m - 1, y) + DaysIn(m - 1, y)

\* Days from 0001-01-01 to the given date of the proleptic Gregorian calendar.
DaysFromCivil(y, m, d) ==
    365 * (y - 1) + ((y - 1) \div 4) - ((y - 1) \div 100) + ((y - 1) \div 400)
    + DaysBefore(m, y) + (d - 1)

\* time.Parse(time.RFC3339, text) on texts without a fraction of a second and
\* without a numeric zone: the shape is YYYY-MM-DDThh:mm:ssZ with every field
\* in range.  On any failure the zero Time is returned with the error.
timeParse(text) ==
    LET shaped == /\ Len(text) = 20
                  /\ text[5] = "-" /\ text[8] = "-" /\ text[11] = "T"
                  /\ text[14] = ":" /\ text[17] = ":" /\ text[20] = "Z"
                  /\ \A k \in (1..19) \ {5, 8, 11, 14, 17} : IsDigit(text[k])
        y == Decimal(SubSeq(text, 1, 4))
        m == Decimal(SubSeq(text, 6, 7))
        d == Decimal(SubSeq(text, 9, 10))
        hh == Decimal(SubSeq(text, 12, 13))
        mm == Decimal(SubSeq(text, 15, 16))
        ss == Decimal(SubSeq(text, 18, 19))
    IN  IF shaped /\ m \in 1..12 /\ d \in 1..DaysIn(m, y)
           /\ hh < 24 /\ mm < 60 /\ ss < 60
        THEN [t |-> [days |-> DaysFromCivil(y, m, d),
                     sec |-> 3600 * hh + 60 * mm + ss],
              err |-> "nil"]
        ELSE [t |-> ZeroTime, err |-> "parse"]

\* Time.Unix: seconds since 1970-01-01 UTC, which is day 719162.
Unix(t) == [days |-> t.days - 719162, sec |-> t.sec]

\* userInfo.updated texts the volumes of a response carry.
UpdatedTexts ==
    << <<>>,
       <<"2", "0", "1", "5", "-", "0", "3", "-", "0", "1", "T", "1", "2", ":", "0", "0", ":", "0", "0", "Z">>,
       <<"n", "o", "w">>,
       <<"2", "0", "1", "5", "-", "1", "3", "-", "0", "1", "T", "1", "2", ":", "0", "0", ":", "0", "0", "Z">>,
       <<"2", "0", "1", "5", "-", "0", "3", "-", "0", "1">>,
       <<"1", "9", "7", "0", "-", "0", "1", "-", "0", "1", "T", "0", "0", ":", "0", "0", ":", "0", "0", "Z">> >>

\* The k-th volume of page p of the response: the texts follow one another
\* through the pages.  volumeInfo carries no updateTime of its own.
Volume(p, k) ==
    [ID |-> <<p, k>>,
     VolumeInfo |-> [UpdateTimestamp |-> ZeroSeconds],
     UserInfo |-> [Updated |-> UpdatedTexts[((2 * p + k) % Len(UpdatedTexts)) + 1]]]

\* fullResponse.Items of page p, which has n volumes.
Volumes(p, n) == [k \in 1..n |-> Volume(p, k)]

\* The body of the range loop: info := volume.VolumeInfo; the timestamp is set
\* when Updated is not empty, the error of time.Parse dropped; info.ID.
bookInfo(volume) ==
    [ID |-> volume.ID,
     UpdateTimestamp |->
         IF volume.UserInfo.Updated # <<>>
         THEN Unix(timeParse(volume.UserInfo.Updated).t)
         ELSE volume.VolumeInfo.UpdateTimestamp]

VARIABLES
    api,          \* "none" | "books" | "history": which method was called
    pc,           \* position of the producer goroutine
    cancel,       \* History's cancel channel: "nil" | "open" | "closed"
    i,            \* MyBooks: consumed count, sent as startIndex
    totalItems,   \* MyBooks: fullResponse.TotalItems of the current page
    items,        \* items of the current page (fullResponse.Items / items)
    idx,          \* position of the range loop in items
    contentHTML,  \* History: [page, n] of the current content document
    loadMoreHTML, \* History: kind of the current load-more document
    err,          \* error about to be sent, "" when none
    errChan,      \* contents of the error channel's buffer
    errClosed,    \* number of close(errChan) calls
    outClosed,    \* number of close(bookChan) / close(videoChan) calls
    panicked,     \* the goroutine is unwinding after a runtime panic
    requests,     \* log: the requests issued (startIndex, or the path)
    fetched,      \* log: item count of every page received
    received,     \* log: records the consumer has accepted
    exit,         \* log: why the producer left its loop, "" while running
    draining,     \* the consumer still receives from the record channel
    caller,       \* "chan": the caller holds the channels; "full": FullHistory
    ret,          \* FullHistory: <<>> until it returns, then <<[res, err]>>
    errSent,      \* log: every value sent on errChan
    lastTotal,    \* log: totalItems of the latest MyBooks response
    duration,     \* parseVideoDuration: its argument, a sequence of characters
    parsed,       \* parseVideoDuration: <<>> until it returns, then <<[d, err]>>
    lim,          \* [items, fetch]: the bounds of this run
    other         \* <<>>, or <<the second stream's variables>> while the first runs

vars == <<api, pc, cancel, i, totalItems, items, idx, contentHTML, loadMoreHTML,
          err, errChan, errClosed, outClosed, panicked, requests, fetched,
          received, exit, draining, caller, ret, errSent, lastTotal,
          duration, parsed, lim, other>>

prodVars == <<i, totalItems, items, idx, contentHTML, loadMoreHTML, err>>
chanVars == <<errChan, errClosed, outClosed>>
logVars == <<requests, fetched, received, exit>>
consVars == <<draining, caller, ret>>
noteVars == <<errSent, lastTotal>>
durVars == <<duration, parsed>>
sideVars == <<durVars, lim, other>>

\* totalItems values the server may report.
Totals == 0..(lim.items * lim.fetch + 1)
\* Most records the consumer accepts in one run.
MaxRecv == lim.items * lim.fetch
extVars == <<consVars, noteVars, sideVars>>

InitStream ==
    /\ api = "none"
    /\ pc = "idle"
    /\ cancel = "nil"
    /\ i = 0
    /\ totalItems = 0
    /\ items = <<>>
    /\ idx = 1
    /\ contentHTML = [page |-> 0, n |-> 0]
    /\ loadMoreHTML = "nil"
    /\ err = ""
    /\ errChan = <<>>
    /\ errClosed = 0
    /\ outClosed = 0
    /\ panicked = FALSE
    /\ requests = <<>>
    /\ fetched = <<>>
    /\ received = <<>>
    /\ exit = ""
    /\ draining = TRUE
    /\ caller = "chan"
    /\ ret = <<>>
    /\ errSent = <<>>
    /\ lastTotal = 0

Init ==
    /\ InitStream
    /\ duration = <<>>
    /\ parsed = <<>>
    /\ lim = [items |-> MaxItems, fetch |-> MaxFetch]
    /\ other = <<>>

\* ----------------------------------------------------------------- caller
\* p.MyBooks(sources): channels made, goroutine started with i := 0.
CallMyBooks ==
    /\ api = "none"
    /\ api' = "books"
    /\ pc' = "loop"
    /\ i' = 0
    /\ UNCHANGED <<extVars, cancel, totalItems, items, idx, contentHTML, loadMoreHTML,
                   err, chanVars, panicked, logVars>>

\* y.History(cancel): the caller passes nil (as FullHistory does) or a channel.
CallHistory ==
    /\ api = "none"
    /\ api' = "history"
    /\ pc' = "do"
    /\ cancel' \in {"nil", "open"}
    /\ UNCHANGED <<extVars, prodVars, chanVars, panicked, logVars>>

\* The caller closes the cancel channel.
CloseCancel ==
    /\ api = "history"
    /\ cancel = "open"
    /\ cancel' = "closed"
    /\ UNCHANGED <<extVars, api, pc, prodVars, chanVars, panicked, logVars>>

\* The caller stops receiving from the record channel before it is closed.
ConsumerStops ==
    /\ api # "none" /\ caller = "chan"
    /\ draining /\ outClosed = 0
    /\ draining' = FALSE
    /\ UNCHANGED <<sideVars, caller, ret, noteVars, api, pc, cancel, prodVars, chanVars,
                   panicked, logVars>>

\* y.FullHistory(): vidChan, errChan := y.History(nil), then the range loop
\* over vidChan, which receives until the channel is closed.
CallFullHistory ==
    /\ api = "none"
    /\ api' = "history"
    /\ caller' = "full"
    /\ cancel' = "nil"
    /\ pc' = "do"
    /\ UNCHANGED <<sideVars, draining, ret, noteVars, prodVars, chanVars, panicked, logVars>>

\* FullHistory after its range loop has ended (vidChan closed): return res,
\* <-errChan.  The receive takes the buffered error, or yields nil from the
\* closed channel, and blocks while the channel is open and empty.  res holds
\* the records received.
FullHistory_Return ==
    /\ api = "history" /\ caller = "full"
    /\ ret = <<>>
    /\ outClosed > 0
    /\ pc # "crashed"
    /\ \/ /\ errChan # <<>>
          /\ ret' = <<[res |-> received, err |-> Head(errChan)]>>
          /\ errChan' = Tail(errChan)
       \/ /\ errChan = <<>> /\ errClosed > 0
          /\ ret' = <<[res |-> received, err |-> "nil"]>>
          /\ errChan' = errChan
    /\ UNCHANGED <<sideVars, draining, caller, noteVars, api, pc, cancel, prodVars,
                   errClosed, outClosed, panicked, logVars>>

\* ---------------------------------------------------------------- MyBooks
\* if i >= fullResponse.TotalItems { return }
ExhaustedOffByOne(consumed, total) == consumed > total
Exhausted(consumed, total) == consumed >= total

\* Top of the loop: build the request with startIndex=i and call p.s.Do.
MyBooks_Do ==
    /\ api = "books" /\ pc = "loop"
    /\ Len(requests) < lim.fetch
    /\ requests' = Append(requests, i)
    /\ pc' = "await"
    /\ UNCHANGED <<extVars, api, cancel, prodVars, chanVars, panicked, fetched, received,
                   exit>>

\* p.s.Do, ioutil.ReadAll or json.Unmarshal fails: the error is to be sent.
MyBooks_Fails ==
    /\ api = "books" /\ pc = "await"
    /\ \E e \in {"doErr", "readErr", "jsonErr"} : err' = e
    /\ pc' = "sendErr"
    /\ exit' = "error"
    /\ UNCHANGED <<extVars, api, cancel, i, totalItems, items, idx, contentHTML,
                   loadMoreHTML, chanVars, panicked, requests, fetched, received>>

\* As MyBooks_Page, with the total kept from the first response.
MyBooks_PageCachedTotal ==
    /\ api = "books" /\ pc = "await"
    /\ \E n \in 0..lim.items, total \in Totals :
        /\ Len(requests) = lim.fetch => i + n >= total
        /\ items' = Volumes(Len(fetched) + 1, n)
        /\ totalItems' = IF fetched = <<>> THEN total ELSE totalItems
        /\ lastTotal' = total
        /\ fetched' = Append(fetched, n)
        /\ pc' = IF n = 0 THEN "advance" ELSE "send"
    /\ idx' = 1
    /\ UNCHANGED <<sideVars, consVars, errSent, api, cancel, i, contentHTML, loadMoreHTML,
                   err, chanVars, panicked, requests, received, exit>>

\* The response decodes: n items and a total.  The last request the bound
\* allows is answered with a page that ends the paging.
MyBooks_Page ==
    /\ api = "books" /\ pc = "await"
    /\ \E n \in 0..lim.items, total \in Totals :
        /\ Len(requests) = lim.fetch => i + n >= total
        /\ items' = Volumes(Len(fetched) + 1, n)
        /\ totalItems' = total
        /\ lastTotal' = total
        /\ fetched' = Append(fetched, n)
        /\ pc' = IF n = 0 THEN "advance" ELSE "send"
    /\ idx' = 1
    /\ UNCHANGED <<sideVars, consVars, errSent, api, cancel, i, contentHTML, loadMoreHTML, err, chanVars,
                   panicked, requests, received, exit>>

\* As MyBooks_Handoff with a buffered bookChan: the send completes whether or
\* not the consumer receives.
MyBooks_HandoffBuffered ==
    /\ api = "books" /\ pc = "send"
    /\ Len(received) < MaxRecv
    /\ received' = IF draining THEN Append(received, bookInfo(items[idx])) ELSE received
    /\ idx' = idx + 1
    /\ pc' = IF idx = Len(items) THEN "advance" ELSE "send"
    /\ UNCHANGED <<extVars, api, cancel, i, totalItems, items, contentHTML,
                   loadMoreHTML, err, chanVars, panicked, requests, fetched, exit>>

\* bookChan <- info: blocks until the consumer receives.
MyBooks_Handoff ==
    /\ api = "books" /\ pc = "send"
    /\ draining
    /\ Len(received) < MaxRecv
    /\ received' = Append(received, bookInfo(items[idx]))
    /\ idx' = idx + 1
    /\ pc' = IF idx = Len(items) THEN "advance" ELSE "send"
    /\ UNCHANGED <<extVars, api, cancel, i, totalItems, items, contentHTML, loadMoreHTML,
                   err, chanVars, panicked, requests, fetched, exit>>

\* As MyBooks_Advance, with i = len(...) in place of i += len(...).
MyBooks_AdvanceAssign ==
    /\ api = "books" /\ pc = "advance"
    /\ i' = Len(items)
    /\ IF Exhausted(i', totalItems)
       THEN pc' = "deferErr" /\ exit' = "exhausted"
       ELSE pc' = "loop" /\ exit' = exit
    /\ UNCHANGED <<extVars, api, cancel, totalItems, items, idx, contentHTML,
                   loadMoreHTML, err, chanVars, panicked, requests, fetched,
                   received>>

\* i += len(fullResponse.Items); return when i >= TotalItems, else loop.
MyBooks_Advance ==
    /\ api = "books" /\ pc = "advance"
    /\ i' = i + Len(items)
    /\ IF Exhausted(i', totalItems)
       THEN pc' = "deferErr" /\ exit' = "exhausted"
       ELSE pc' = "loop" /\ exit' = exit
    /\ UNCHANGED <<extVars, api, cancel, totalItems, items, idx, contentHTML,
                   loadMoreHTML, err, chanVars, panicked, requests, fetched,
                   received>>

\* As MyBooks_SendErr, with the return after the send left out: the loop goes on.
MyBooks_SendErrNoReturn ==
    /\ api = "books" /\ pc = "sendErr"
    /\ Len(errChan) < ErrChanCap
    /\ errChan' = Append(errChan, err)
    /\ errSent' = Append(errSent, err)
    /\ pc' = "loop"
    /\ UNCHANGED <<sideVars, consVars, lastTotal, api, cancel, prodVars, errClosed, outClosed, panicked,
                   logVars>>

\* As MyBooks_SendErr on an errChan made without a buffer: the send completes
\* only into room that a channel of capacity 0 never has, no receiver waiting.
MyBooks_SendErrUnbuffered ==
    /\ api = "books" /\ pc = "sendErr"
    /\ Len(errChan) < 0
    /\ errChan' = Append(errChan, err)
    /\ errSent' = Append(errSent, err)
    /\ pc' = "deferErr"
    /\ UNCHANGED <<sideVars, consVars, lastTotal, api, cancel, prodVars, errClosed,
                   outClosed, panicked, logVars>>

\* errChan <- err; return.  The send needs room in the buffer.
MyBooks_SendErr ==
    /\ api = "books" /\ pc = "sendErr"
    /\ Len(errChan) < ErrChanCap
    /\ errChan' = Append(errChan, err)
    /\ errSent' = Append(errSent, err)
    /\ pc' = "deferErr"
    /\ UNCHANGED <<sideVars, consVars, lastTotal, api, cancel, prodVars, errClosed, outClosed, panicked,
                   logVars>>

\* defer close(errChan): registered last, so it runs first.
MyBooks_CloseErrChan ==
    /\ api = "books" /\ pc = "deferErr"
    /\ errClosed' = errClosed + 1
    /\ pc' = "deferOut"
    /\ UNCHANGED <<extVars, api, cancel, prodVars, errChan, outClosed, panicked, logVars>>

\* defer close(bookChan): registered first, so it runs last.
MyBooks_CloseBookChan ==
    /\ api = "books" /\ pc = "deferOut"
    /\ outClosed' = outClosed + 1
    /\ pc' = "done"
    /\ UNCHANGED <<extVars, api, cancel, prodVars, errChan, errClosed, panicked, logVars>>

NextBooks ==
    \/ MyBooks_Do
    \/ MyBooks_Fails
    \/ MyBooks_Page
    \/ MyBooks_Handoff
    \/ MyBooks_Advance
    \/ MyBooks_SendErr
    \/ MyBooks_CloseErrChan
    \/ MyBooks_CloseBookChan

\* ---------------------------------------------------------------- History
\* scrape.Find(loadMoreHTML, scrape.ByClass("yt-uix-load-more")): found or not.
FindLoadButton(more) == more \in {"noattr", "badhref", "href"}

\* scrape.Attr(loadButton, "data-uix-load-more-href"): "" when absent.
Attr(more) == IF more = "noattr" THEN "" ELSE more

\* parseHistoryItems(contentHTML): one record per yt-lockup-video element, in
\* document order.
parseHistoryItems(content) ==
    [k \in 1..content.n |-> parseVideoInfo(VideoElement(content.page, k))]

\* Build the request for /feed/history and call y.s.Do.
History_Do ==
    /\ api = "history" /\ pc = "do"
    /\ requests' = Append(requests, "/feed/history")
    /\ pc' = "awaitFirst"
    /\ UNCHANGED <<extVars, api, cancel, prodVars, chanVars, panicked, fetched, received,
                   exit>>

\* y.s.Do returns (nil, err).  The error is not tested: the next statement,
\* html.Parse(resp.Body), dereferences the nil response and panics.  The
\* deferred closes run while the goroutine unwinds.
History_DoFails ==
    /\ api = "history" /\ pc = "awaitFirst"
    /\ err' = "doErr"
    /\ panicked' = TRUE
    /\ pc' = "deferErr"
    /\ exit' = "panic"
    /\ UNCHANGED <<extVars, api, cancel, i, totalItems, items, idx, contentHTML,
                   loadMoreHTML, chanVars, requests, fetched, received>>

\* y.s.Do succeeds and html.Parse fails (reading the body fails).
History_ParseFails ==
    /\ api = "history" /\ pc = "awaitFirst"
    /\ err' = "parseErr"
    /\ pc' = "sendErr"
    /\ exit' = "error"
    /\ UNCHANGED <<extVars, api, cancel, i, totalItems, items, idx, contentHTML,
                   loadMoreHTML, chanVars, panicked, requests, fetched, received>>

\* The first document parses: loadMoreHTML := rootNode; contentHTML := rootNode.
History_FirstPage ==
    /\ api = "history" /\ pc = "awaitFirst"
    /\ \E n \in 0..lim.items, m \in FirstMoreKinds :
        /\ contentHTML' = [page |-> 1, n |-> n]
        /\ loadMoreHTML' = m
        /\ fetched' = Append(fetched, n)
    /\ pc' = "parse"
    /\ UNCHANGED <<extVars, api, cancel, i, totalItems, items, idx, err, chanVars,
                   panicked, requests, received, exit>>

\* Top of the loop: items := parseHistoryItems(contentHTML); start the range.
History_Parse ==
    /\ api = "history" /\ pc = "parse"
    /\ items' = parseHistoryItems(contentHTML)
    /\ idx' = 1
    /\ pc' = IF Len(items') = 0 THEN "more" ELSE "select"
    /\ UNCHANGED <<extVars, api, cancel, i, totalItems, contentHTML, loadMoreHTML, err,
                   chanVars, panicked, logVars>>

\* select, case videoChan <- item: the consumer receives the item.
History_Handoff ==
    /\ api = "history" /\ pc = "select"
    /\ draining
    /\ Len(received) < MaxRecv
    /\ received' = Append(received, items[idx])
    /\ idx' = idx + 1
    /\ pc' = IF idx = Len(items) THEN "more" ELSE "select"
    /\ UNCHANGED <<extVars, api, cancel, i, totalItems, items, contentHTML, loadMoreHTML,
                   err, chanVars, panicked, requests, fetched, exit>>

\* As History_Cancelled, with break in place of return: the select is left,
\* the item is dropped and the range loop goes on.
History_CancelledBreak ==
    /\ api = "history" /\ pc = "select"
    /\ cancel = "closed"
    /\ idx' = idx + 1
    /\ pc' = IF idx = Len(items) THEN "more" ELSE "select"
    /\ UNCHANGED <<extVars, api, cancel, i, totalItems, items, contentHTML,
                   loadMoreHTML, err, chanVars, panicked, logVars>>

\* select, case <-cancel: return.  A nil or open channel is never ready.
History_Cancelled ==
    /\ api = "history" /\ pc = "select"
    /\ cancel = "closed"
    /\ pc' = "deferErr"
    /\ exit' = "cancel"
    /\ UNCHANGED <<extVars, api, cancel, prodVars, chanVars, panicked, requests, fetched,
                   received>>

\* if loadMoreHTML == nil { break }
History_Break ==
    /\ api = "history" /\ pc = "more"
    /\ loadMoreHTML = "nil"
    /\ pc' = "deferErr"
    /\ exit' = "break"
    /\ UNCHANGED <<extVars, api, cancel, prodVars, chanVars, panicked, requests, fetched,
                   received>>

\* scrape.Find does not find the button: the if body is skipped and the for
\* loop starts over with contentHTML and loadMoreHTML as they are.
History_NoButton ==
    /\ api = "history" /\ pc = "more"
    /\ loadMoreHTML # "nil"
    /\ ~FindLoadButton(loadMoreHTML)
    /\ pc' = "parse"
    /\ UNCHANGED <<extVars, api, cancel, prodVars, chanVars, panicked, logVars>>

\* The button is found; fetchMoreHistory(morePath): http.NewRequest rejects
\* the URL, no request is sent.
History_BadURL ==
    /\ api = "history" /\ pc = "more"
    /\ loadMoreHTML # "nil"
    /\ FindLoadButton(loadMoreHTML)
    /\ Attr(loadMoreHTML) = "badhref"
    /\ err' = "urlErr"
    /\ pc' = "sendErr"
    /\ exit' = "error"
    /\ UNCHANGED <<extVars, api, cancel, i, totalItems, items, idx, contentHTML,
                   loadMoreHTML, chanVars, panicked, requests, fetched, received>>

\* The button is found; fetchMoreHistory(morePath) sends the request for
\* "https://www.youtube.com" + morePath.
History_Fetch ==
    /\ api = "history" /\ pc = "more"
    /\ loadMoreHTML # "nil"
    /\ FindLoadButton(loadMoreHTML)
    /\ Attr(loadMoreHTML) # "badhref"
    /\ Len(requests) < lim.fetch
    /\ requests' = Append(requests, Attr(loadMoreHTML))
    /\ pc' = "await"
    /\ UNCHANGED <<extVars, api, cancel, prodVars, chanVars, panicked, fetched, received,
                   exit>>

\* fetchMoreHistory fails: y.s.Do, the JSON decoder, or html.Parse of the
\* content.
History_FetchFails ==
    /\ api = "history" /\ pc = "await"
    /\ \E e \in {"doErr", "jsonErr", "parseErr"} : err' = e
    /\ pc' = "sendErr"
    /\ exit' = "error"
    /\ UNCHANGED <<extVars, api, cancel, i, totalItems, items, idx, contentHTML,
                   loadMoreHTML, chanVars, panicked, requests, fetched, received>>

\* fetchMoreHistory succeeds: content and more are the parsed content_html
\* and load_more_widget_html.  The error of the second html.Parse is dropped,
\* so more may be nil.  The last request the bound allows is answered with a
\* page that asks for no further request.
History_FetchPage ==
    /\ api = "history" /\ pc = "await"
    /\ \E n \in 0..lim.items, m \in MoreKinds :
        /\ Len(requests) = lim.fetch => m \in {"nil", "nomarker", "badhref"}
        /\ contentHTML' = [page |-> Len(fetched) + 1, n |-> n]
        /\ loadMoreHTML' = m
        /\ fetched' = Append(fetched, n)
    /\ pc' = "parse"
    /\ UNCHANGED <<extVars, api, cancel, i, totalItems, items, idx, err, chanVars,
                   panicked, requests, received, exit>>

\* As History_SendErr, with the return after the send left out: the loop goes
\* on with the page it had.
History_SendErrNoReturn ==
    /\ api = "history" /\ pc = "sendErr"
    /\ Len(errChan) < ErrChanCap
    /\ errChan' = Append(errChan, err)
    /\ errSent' = Append(errSent, err)
    /\ pc' = "parse"
    /\ UNCHANGED <<sideVars, consVars, lastTotal, api, cancel, prodVars, errClosed,
                   outClosed, panicked, logVars>>

\* errChan <- err; return.  The send needs room in the buffer.
History_SendErr ==
    /\ api = "history" /\ pc = "sendErr"
    /\ Len(errChan) < ErrChanCap
    /\ errChan' = Append(errChan, err)
    /\ errSent' = Append(errSent, err)
    /\ pc' = "deferErr"
    /\ UNCHANGED <<sideVars, consVars, lastTotal, api, cancel, prodVars, errClosed, outClosed, panicked,
                   logVars>>

\* As History_CloseErrChan, with the deferred close(errChan) left out.
History_CloseErrChanMissing ==
    /\ api = "history" /\ pc = "deferErr"
    /\ pc' = "deferOut"
    /\ UNCHANGED <<extVars, api, cancel, prodVars, chanVars, panicked, logVars>>

\* defer close(errChan): registered last, so it runs first.
History_CloseErrChan ==
    /\ api = "history" /\ pc = "deferErr"
    /\ errClosed' = errClosed + 1
    /\ pc' = "deferOut"
    /\ UNCHANGED <<extVars, api, cancel, prodVars, errChan, outClosed, panicked, logVars>>

\* defer close(videoChan): registered first, so it runs last.  After a panic
\* the goroutine has unwound and nothing has recovered the panic.
History_CloseVideoChan ==
    /\ api = "history" /\ pc = "deferOut"
    /\ outClosed' = outClosed + 1
    /\ pc' = IF panicked THEN "unwound" ELSE "done"
    /\ UNCHANGED <<extVars, api, cancel, prodVars, errChan, errClosed, panicked, logVars>>

\* The unrecovered panic ends the process, the caller's goroutine with it.
History_Crash ==
    /\ api = "history" /\ pc = "unwound"
    /\ pc' = "crashed"
    /\ UNCHANGED <<extVars, api, cancel, prodVars, chanVars, panicked, logVars>>

NextHistory ==
    \/ History_Do
    \/ History_DoFails
    \/ History_ParseFails
    \/ History_FirstPage
    \/ History_Parse
    \/ History_Handoff
    \/ History_Cancelled
    \/ History_Break
    \/ History_NoButton
    \/ History_BadURL
    \/ History_Fetch
    \/ History_FetchFails
    \/ History_FetchPage
    \/ History_SendErr
    \/ History_CloseErrChan
    \/ History_CloseVideoChan
    \/ History_Crash

\* ---------------------------------------------------------- specification
Next ==
    \/ CallMyBooks
    \/ CallHistory
    \/ CallFullHistory
    \/ CloseCancel
    \/ ConsumerStops
    \/ FullHistory_Return
    \/ NextBooks
    \/ NextHistory

Spec == Init /\ [][Next]_vars

\* The goroutine keeps being scheduled and the transport answers every request
\* (weak fairness of every producer step that needs no partner).  A select with
\* several ready cases picks one at random, so a cancel case that is ready again
\* and again is taken (strong fairness).  Nothing is assumed of the consumer.
ProducerStep ==
    \/ MyBooks_Do \/ MyBooks_Fails \/ MyBooks_Page \/ MyBooks_Advance
    \/ MyBooks_SendErr \/ MyBooks_CloseErrChan \/ MyBooks_CloseBookChan
    \/ History_Do \/ History_DoFails \/ History_ParseFails \/ History_FirstPage
    \/ History_Parse \/ History_Break \/ History_NoButton \/ History_BadURL
    \/ History_Fetch \/ History_FetchFails \/ History_FetchPage
    \/ History_SendErr \/ History_CloseErrChan \/ History_CloseVideoChan
    \/ History_Crash

FairSpec == Spec /\ WF_vars(ProducerStep) /\ SF_vars(History_Cancelled)

\* The steps by which a producer leaves after a failure: the send into the
\* buffered error channel, the deferred closes and the end of a panic.  None
\* needs a partner, so a goroutine that keeps being scheduled takes them.
ErrorExitStep ==
    \/ MyBooks_SendErr \/ MyBooks_CloseErrChan \/ MyBooks_CloseBookChan
    \/ History_SendErr \/ History_CloseErrChan \/ History_CloseVideoChan
    \/ History_Crash

ExitFairSpec == Spec /\ WF_vars(ErrorExitStep)

\* parseVideoDuration called on one text.
DurInit ==
    /\ InitStream
    /\ duration \in DurTexts
    /\ parsed = <<>>
    /\ lim = [items |-> MaxItems, fetch |-> MaxFetch]
    /\ other = <<>>

ParseDuration ==
    /\ parsed = <<>>
    /\ parsed' = <<parseVideoDuration(duration)>>
    /\ UNCHANGED <<duration, lim, other, consVars, noteVars, api, pc, cancel,
                   prodVars, chanVars, panicked, logVars>>

DurSpec == DurInit /\ [][ParseDuration]_vars

\* ------------------------------------------------------------ two streams
\* The variables of the stream that is running.
Stream ==
    [api |-> api, pc |-> pc, cancel |-> cancel, i |-> i,
     totalItems |-> totalItems, items |-> items, idx |-> idx,
     contentHTML |-> contentHTML, loadMoreHTML |-> loadMoreHTML, err |-> err,
     errChan |-> errChan, errClosed |-> errClosed, outClosed |-> outClosed,
     panicked |-> panicked, requests |-> requests, fetched |-> fetched,
     received |-> received, exit |-> exit, draining |-> draining,
     caller |-> caller, ret |-> ret, errSent |-> errSent,
     lastTotal |-> lastTotal]

\* The scheduler turns from one stream (its goroutine and its consumer) to the
\* other.  Each call has made its own channels and its goroutine has its own
\* locals, so the two share no variable.  A panic that has run its course has
\* ended the process: nothing is scheduled after it.
Switch ==
    /\ other # <<>>
    /\ pc # "crashed"
    /\ other' = <<Stream>>
    /\ api' = other[1].api /\ pc' = other[1].pc /\ cancel' = other[1].cancel
    /\ i' = other[1].i /\ totalItems' = other[1].totalItems
    /\ items' = other[1].items /\ idx' = other[1].idx
    /\ contentHTML' = other[1].contentHTML
    /\ loadMoreHTML' = other[1].loadMoreHTML
    /\ err' = other[1].err /\ errChan' = other[1].errChan
    /\ errClosed' = other[1].errClosed /\ outClosed' = other[1].outClosed
    /\ panicked' = other[1].panicked /\ requests' = other[1].requests
    /\ fetched' = other[1].fetched /\ received' = other[1].received
    /\ exit' = other[1].exit /\ draining' = other[1].draining
    /\ caller' = other[1].caller /\ ret' = other[1].ret
    /\ errSent' = other[1].errSent /\ lastTotal' = other[1].lastTotal
    /\ UNCHANGED <<durVars, lim>>

\* Two calls, neither made yet, on one Session.
ConcInit ==
    /\ InitStream
    /\ duration = <<>>
    /\ parsed = <<>>
    /\ lim = [items |-> ConcItems, fetch |-> ConcFetch]
    /\ other = <<Stream>>

ConcNext ==
    \/ Switch
    \/ CallMyBooks
    \/ CallHistory
    \/ CloseCancel
    \/ NextBooks
    \/ NextHistory

ConcSpec == ConcInit /\ [][ConcNext]_vars

\* ----------------------------------------------------------------- claims
Terminated == pc \in {"done", "crashed"}
\* The record of the item at position id[2] of page id[1].
RecordOf(id) ==
    IF api = "history" THEN parseVideoInfo(VideoElement(id[1], id[2]))
    ELSE bookInfo(Volume(id[1], id[2]))
ItemID(r) == r.ID

\* The records of all pages received so far, in fetch order and document order.
AllFetched ==
    LET ids == Concat(fetched, Len(fetched))
    IN  [k \in 1..Len(ids) |-> RecordOf(ids[k])]
\* Number of records the consumer has accepted that come from page p.
ReceivedFrom(p) == Cardinality({k \in 1..Len(received) : ItemID(received[k])[1] = p})

\* C1: in History, once the current page has no load-more marker, the consumer
\* is handed that page's items and nothing more: the number of records received
\* from the page never exceeds the number of items on it.
C1_TokenExhaustionStops ==
    (api = "history" /\ loadMoreHTML \in {"nil", "nomarker"}) =>
        ReceivedFrom(contentHTML.page) <= contentHTML.n

\* C2: in History, the records received are always a prefix of the items of the
\* fetched pages in fetch order and document order: none twice, none skipped.
C2_ExactlyOnceOrdered ==
    api = "history" => IsPrefix(received, AllFetched)

\* C3: in MyBooks, the same startIndex is never requested twice in a row.
C3_ZeroProgressGuard ==
    api = "books" =>
        \A k \in 1..(Len(requests) - 1) : requests[k] # requests[k + 1]

\* C4: in History, once the producer has observed the closed cancel channel, what
\* the consumer has received is a prefix of the fetched items in page order and
\* document order, the error channel holds nothing, and the producer is closing
\* or has closed its channels.
C4_CancellationOutcome ==
    (api = "history" /\ exit = "cancel") =>
        /\ IsPrefix(received, AllFetched)
        /\ errChan = <<>>
        /\ pc \in {"deferErr", "deferOut", "done"}

\* C5: in History, once the cancel channel is closed no request for a further
\* page is issued.
C5_NoFetchAfterCancel ==
    [][(cancel = "closed" /\ fetched # <<>>) => requests' = requests]_vars

\* C6: in History, once the cancel channel is closed the producer eventually
\* terminates.
C6_CancelLiveness ==
    (api = "history" /\ cancel = "closed") ~> Terminated

\* C7: in MyBooks and in History, when the fetch of a page after the first
\* fails, the consumer has received every record of the pages before it, in
\* order; the error put on the error channel is the one the fetch failed with;
\* and no request follows the failed one.
C7_ErrorMidStream ==
    (exit = "error" /\ Len(fetched) >= 1) =>
        /\ received = AllFetched
        /\ err # ""
        /\ errSent = IF pc = "sendErr" THEN <<>> ELSE <<err>>
        /\ pc \in {"sendErr", "deferErr", "deferOut", "done"}
        /\ Len(requests) <= Len(fetched) + 1

\* History: the third request fails after two pages of MaxItems items each; the
\* consumer holds all their records and the error is delivered.
C7_Witness ==
    /\ api = "history" /\ exit = "error" /\ pc = "done"
    /\ fetched = <<MaxItems, MaxItems>>
    /\ requests = <<"/feed/history", "href", "href">>
    /\ Len(received) = 2 * MaxItems
    /\ errSent = <<"doErr">>

\* C9: in MyBooks, a further request is issued only while the consumed count is
\* below the total of the page just processed; when the producer stops for
\* exhaustion the consumed count has reached that page's total, every item was
\* handed over, every request got its page, and no error was produced.
C9_OffsetExhaustion ==
    api = "books" =>
        /\ (pc \in {"loop", "await"} /\ fetched # <<>>) => i < totalItems
        /\ exit = "exhausted" =>
              /\ i >= totalItems
              /\ i = Sum(fetched, Len(fetched))
              /\ received = AllFetched
              /\ Len(requests) = Len(fetched)
              /\ err = "" /\ errChan = <<>>
              /\ pc \in {"deferErr", "deferOut", "done"}

\* The first page carries as many items as the total it reports: one request,
\* its items handed over, clean end.
C9_Witness ==
    /\ api = "books" /\ pc = "done" /\ exit = "exhausted"
    /\ requests = <<0>>
    /\ fetched = <<MaxItems>> /\ totalItems = MaxItems
    /\ Len(received) = MaxItems
    /\ errChan = <<>>

\* C10: in MyBooks and in History each channel is closed at most once; both are
\* closed exactly once when the producer has ended, whichever way it ended; and
\* once either is closed the producer is past every send.
C10_ClosedExactlyOnce ==
    /\ errClosed <= 1 /\ outClosed <= 1
    /\ Terminated => errClosed = 1 /\ outClosed = 1
    /\ (errClosed > 0 \/ outClosed > 0) =>
          pc \in {"deferOut", "unwound", "done", "crashed"}
    /\ pc \in {"send", "select", "sendErr"} => errClosed = 0 /\ outClosed = 0

\* History ended by cancellation after a record was handed over, both channels
\* closed once.
C10_Witness ==
    /\ api = "history" /\ pc = "done" /\ exit = "cancel"
    /\ received # <<>>
    /\ errClosed = 1 /\ outClosed = 1

\* C11: in MyBooks and in History at most one value is ever sent on the error
\* channel; once it is sent the producer is on its way out, and no record is
\* handed over and no request issued after it.
C11_AtMostOneError ==
    /\ [](/\ Len(errSent) <= 1
          /\ errSent # <<>> =>
                pc \in {"deferErr", "deferOut", "done"} /\ exit = "error")
    /\ [][errSent # <<>> =>
            received' = received /\ requests' = requests /\ errSent' = errSent]_vars

\* MyBooks: the second request failed after a page of items was handed over;
\* the error was sent and the stream ended.
C11_Witness ==
    /\ api = "books" /\ pc = "done"
    /\ errSent = <<"jsonErr">>
    /\ Len(requests) = 2 /\ Len(received) = MaxItems

\* C12: in MyBooks, and in History while cancel is not closed, a producer that
\* has a record to hand over to a consumer that has stopped receiving stays
\* where it is: no request, no error, no close, no record.  A producer that has
\* a record to hand over to a consumer that receives can hand it over (within
\* the bound on the records of one run).
C12_UndrainedStalls ==
    /\ []((draining /\ pc \in {"send", "select"} /\ Len(received) < MaxRecv) =>
            ENABLED (MyBooks_Handoff \/ History_Handoff))
    /\ [][(~draining /\ pc \in {"send", "select"} /\ cancel' # "closed") =>
            /\ pc' = pc /\ idx' = idx
            /\ requests' = requests /\ received' = received
            /\ errSent' = errSent
            /\ errClosed' = errClosed /\ outClosed' = outClosed]_vars

\* MyBooks blocked on the second item of its second page, the consumer having
\* stopped.
C12_Witness ==
    /\ api = "books" /\ pc = "send" /\ ~draining
    /\ Len(fetched) = 2 /\ idx = 2
    /\ errClosed = 0 /\ outClosed = 0

\* C13: in MyBooks and in History a request is issued only when every record
\* of every page received so far has been accepted by the consumer, and at most
\* one request is unanswered at any time.
C13_EmitBeforeNextFetch ==
    /\ Len(requests) <= Len(fetched) + 1
    /\ pc \in {"await", "awaitFirst"} =>
          Len(requests) = Len(fetched) + 1 /\ received = AllFetched

\* History with its third request in flight, cancel closed meanwhile, after two
\* pages of MaxItems items were handed over.
C13_Witness ==
    /\ api = "history" /\ pc = "await" /\ cancel = "closed"
    /\ fetched = <<MaxItems, MaxItems>>
    /\ Len(received) = 2 * MaxItems

\* C14: in History no request is issued for a load-more element without a
\* data-uix-load-more-href value: no request has the empty path.
C14_NoAttrIsExhaustion ==
    api = "history" => \A k \in 1..Len(requests) : requests[k] # ""

\* C15: FullHistory returns the records received and the error the stream ended
\* with (nil when it ended without one), and once the record channel is closed
\* its receive from the error channel does not block.
C15_FullHistoryPartialResults ==
    caller = "full" =>
        /\ ret # <<>> =>
              ret[1] = [res |-> received, err |-> IF err = "" THEN "nil" ELSE err]
        /\ (outClosed > 0 /\ ret = <<>>) => ENABLED FullHistory_Return

\* C16: in MyBooks every request carries as startIndex the sum of the item
\* counts of the pages received before it, and the paging goes on exactly while
\* that sum is below the total of the latest response.
C16_OffsetUsesLatestTotal ==
    api = "books" =>
        /\ \A k \in 1..Len(requests) : requests[k] = Sum(fetched, k - 1)
        /\ (pc \in {"loop", "await"} /\ fetched # <<>>) => i < lastTotal
        /\ exit = "exhausted" => i >= lastTotal

\* The second response reports a total below the count already consumed (the
\* first one reported more): the stream ends there.
C16_Witness ==
    /\ api = "books" /\ pc = "done" /\ exit = "exhausted"
    /\ fetched = <<MaxItems, 0>> /\ requests = <<0, MaxItems>>
    /\ lastTotal = 0

\* A text of one or more decimal digits.
IsNumber(s) == s # <<>> /\ AllDigits(s)

\* C19: parseVideoDuration gives 60*m + s seconds for a text m:s and
\* 3600*h + 60*m + s seconds for a text h:m:s (each component one or more
\* decimal digits), with no error; "4:05" gives 245, "1:02:03" gives 3723 and
\* "100:00:00" gives 360000.
C19_DurationValues ==
    parsed # <<>> =>
        /\ \A a \in 1..Len(duration) :
              LET m == SubSeq(duration, 1, a - 1)
                  sec == SubSeq(duration, a + 1, Len(duration))
              IN  (duration[a] = ":" /\ IsNumber(m) /\ IsNumber(sec)) =>
                      parsed[1] = [d |-> 60 * Decimal(m) + Decimal(sec),
                                   err |-> "nil"]
        /\ \A a \in 1..Len(duration), b \in 1..Len(duration) :
              LET h == SubSeq(duration, 1, a - 1)
                  m == SubSeq(duration, a + 1, b - 1)
                  sec == SubSeq(duration, b + 1, Len(duration))
              IN  (/\ a < b /\ duration[a] = ":" /\ duration[b] = ":"
                   /\ IsNumber(h) /\ IsNumber(m) /\ IsNumber(sec)) =>
                      parsed[1] = [d |-> 3600 * Decimal(h) + 60 * Decimal(m)
                                         + Decimal(sec),
                                   err |-> "nil"]
        /\ duration = <<"4", ":", "0", "5">> => parsed[1].d = 245
        /\ duration = <<"1", ":", "0", "2", ":", "0", "3">> => parsed[1].d = 3723
        /\ duration = <<"1", "0", "0", ":", "0", "0", ":", "0", "0">> =>
              parsed[1].d = 360000

\* "1:02:03" was parsed.
C19_Witness ==
    /\ duration = <<"1", ":", "0", "2", ":", "0", "3">>
    /\ parsed = <<[d |-> 3723, err |-> "nil"]>>

\* C20: parseVideoDuration returns an error for every text that is not two or
\* three components, each one or more decimal digits, separated by colons.
C20_DurationRejection ==
    LET parts == SplitColon(duration)
        wellFormed == /\ Len(parts) \in {2, 3}
                      /\ \A j \in 1..Len(parts) : IsNumber(parts[j])
    IN  (parsed # <<>> /\ ~wellFormed) => parsed[1].err # "nil"

\* The element has a duration text that does not parse, or lacks its thumbnail,
\* title, author or description.
Deficient(element) ==
    LET e == element.kind
    IN  \/ e.time # "absent" /\ parseVideoDuration(TrimSpace(e.time)).err # "nil"
        \/ e.thumb \in {"absent", "noimg"}
        \/ e.title # "text" \/ e.author # "text" \/ e.desc # "text"

\* C18: in History a record whose element has an unparsable duration text or
\* lacks a thumbnail, title, author or description has the zero value in that
\* field and is received exactly once when its page has been handed over; its
\* handoff sends no error and leaves the producer in its loop.
C18_FieldFailuresTolerated ==
    /\ [](api = "history" =>
            /\ \A k \in 1..Len(received) :
                  LET r == received[k]
                      e == VideoElement(r.ID[1], r.ID[2]).kind
                  IN  /\ (e.time # "absent"
                          /\ parseVideoDuration(TrimSpace(e.time)).err # "nil")
                            => r.Length = 0
                      /\ e.thumb \in {"absent", "noimg"} => r.ThumbnailURL = "nil"
                      /\ e.title # "text" => r.Title = ""
                      /\ e.author # "text" => r.Author = ""
                      /\ e.desc # "text" => r.Description = ""
            /\ \A p \in 1..Len(fetched), k \in 1..lim.items :
                  (/\ k <= fetched[p]
                   /\ Deficient(VideoElement(p, k))
                   /\ p < Len(fetched) \/ pc = "more")
                    => Cardinality({j \in 1..Len(received) :
                                       received[j].ID = <<p, k>>}) = 1)
    /\ [][(api = "history" /\ received' # received
           /\ Deficient(VideoElement(items[idx].ID[1], items[idx].ID[2])))
            => errSent' = errSent /\ pc' \in {"select", "more"}]_vars

\* The ids of the records a stream's consumer has received are a prefix of the
\* ids of the stream's own pages in fetch order and document order, and a
\* MyBooks stream's startIndex values are the sums of its own item counts.
StreamOrdered(st) ==
    /\ IsPrefix([k \in 1..Len(st.received) |->
                    st.received[k].ID],
                Concat(st.fetched, Len(st.fetched)))
    /\ st.api = "books" =>
          \A k \in 1..Len(st.requests) : st.requests[k] = Sum(st.fetched, k - 1)

\* C17: with two calls under way on one Session, each stream's records are its
\* own pages in fetch order and document order, and each MyBooks stream's
\* offsets are the sums of its own item counts.
C17_IndependentStreams ==
    (other # <<>> /\ api # "none" /\ other[1].api = api) =>
        StreamOrdered(Stream) /\ StreamOrdered(other[1])

\* C21: in MyBooks a volume whose userInfo.updated text is not empty and does
\* not parse is handed over with its page, and its record's UpdateTimestamp is
\* 0, the value it has when the text is empty.
C21_TimestampFailureIsZero ==
    api = "books" =>
        /\ pc = "advance" => Len(received) = Sum(fetched, Len(fetched))
        /\ \A k \in 1..Len(received) :
              LET updated == Volume(received[k].ID[1], received[k].ID[2]).UserInfo.Updated
              IN  (updated # <<>> /\ timeParse(updated).err # "nil") =>
                      received[k].UpdateTimestamp = ZeroSeconds

\* C22: in MyBooks and in History the error channel is closed no later than the
\* record channel and nothing is sent on it after a close; so once the record
\* channel is closed a first receive from the error channel is ready, and it
\* yields the error the stream ended with, or nil when it ended without one.
C22_ErrorSettledBeforeClose ==
    /\ [](errClosed >= outClosed)
    /\ [][errSent' # errSent => errClosed = 0 /\ outClosed = 0]_vars
    /\ []((outClosed > 0 /\ ret = <<>>) =>
            /\ errChan # <<>> \/ errClosed > 0
            /\ (IF errChan # <<>> THEN Head(errChan) ELSE "nil")
                  = (IF err = "" THEN "nil" ELSE err))

\* C23: in MyBooks and in History a producer about to send an error finds room
\* in the error channel, whether or not anyone receives from it, and a producer
\* that met a failure goes on to end with both channels closed.
C23_ErrorSendNeverBlocks ==
    /\ [](pc = "sendErr" => ENABLED (MyBooks_SendErr \/ History_SendErr))
    /\ (err # "") ~> (Terminated /\ errClosed = 1 /\ outClosed = 1)

\* MyBooks ended after its second request failed; the error is still in the
\* channel, nobody having received it, and both channels are closed.
C23_Witness ==
    /\ api = "books" /\ pc = "done" /\ exit = "error"
    /\ Len(requests) = 2
    /\ errChan = <<err>> /\ err = "readErr"
    /\ errClosed = 1 /\ outClosed = 1

\* C24: in MyBooks the startIndex of a request in flight is the number of
\* records the consumer has accepted; the first startIndex is 0, the values do
\* not decrease, and the count changes only when a page has been handed over
\* in full, by the number of its items.
C24_OffsetIsAcceptedCount ==
    /\ [](api = "books" =>
            /\ pc = "await" =>
                  requests[Len(requests)] = Len(received) /\ i = Len(received)
            /\ requests # <<>> => requests[1] = 0
            /\ \A k \in 1..(Len(requests) - 1) : requests[k] <= requests[k + 1])
    /\ [][(api = "books" /\ i' # i) =>
            /\ pc = "advance" /\ idx = Len(items) + 1
            /\ i' = i + Len(items)
            /\ Len(received) = i']_vars

\* The third request is in flight after pages of MaxItems items and of one item.
C24_Witness ==
    /\ api = "books" /\ pc = "await"
    /\ fetched = <<MaxItems, 1>>
    /\ requests = <<0, MaxItems, MaxItems + 1>>
    /\ Len(received) = MaxItems + 1

\* C8: in History, when the transport fails on the first document the producer
\* does not crash, hands over no record, and ends with that error on the error
\* channel and both channels closed.
C8_FirstDoErrorDelivered ==
    (api = "history" /\ fetched = <<>> /\ err = "doErr") =>
        /\ ~panicked
        /\ received = <<>>
        /\ Terminated =>
              pc = "done" /\ errChan = <<"doErr">> /\ errClosed = 1 /\ outClosed = 1


====
